---- MODULE Spec2Model ----
(***************************************************************************)
(* A model of gematria/datasets/find_accessed_addrs.cc: the convergence    *)
(* driver FindAccessedAddrs, one trial (ForkAndTestAddresses) with the     *)
(* parent supervisor (ParentProcess, ParentProcessInner) and the forked    *)
(* child (ChildProcess, AbortChildProcess), the pipe between them and the  *)
(* frame-level behaviour of WriteAll / ReadAll.                            *)
(*                                                                         *)
(* Data addresses are byte addresses.  Code addresses (code_location,      *)
(* code_address) are kept in units of 2^20 bytes, because the default code *)
(* location 0x2b00'0000'0000 exceeds the integers of TLC; code     *)
(* addresses are only stored, copied and compared with 0.                  *)
(***************************************************************************)
EXTENDS Integers, Sequences, FiniteSets, TLC

VARIABLES
    basic_block,          \* the argument of FindAccessedAddrs (its behaviour class)
    accessed_addrs,       \* AccessedAddrs accessed_addrs of FindAccessedAddrs
    n,                    \* int n
    num_accessed_blocks,  \* size_t num_accessed_blocks
    status,               \* the status of the last trial (auto status)
    returned,             \* what FindAccessedAddrs returned: "none", "value", "error"
    pc,                   \* the position of the parent process
    result,               \* auto result of ParentProcess
    wstatus,              \* int status of ParentProcessInner (the last wait status)
    parent_fds,           \* pipe descriptors open in the parent process
    pipe_fds,             \* int pipe_fds[2] of the current trial
    pipe,                 \* the frames buffered in the current trial's pipe
    errno,                \* errno of the parent process
    child,                \* the forked child process of the current trial
    io,                   \* one call of WriteAll or ReadAll, byte by byte
    fill                  \* one discovered block in the child: its bytes, the fill loop

vars == <<basic_block, accessed_addrs, n, num_accessed_blocks, status, returned,
          pc, result, wstatus, parent_fds, pipe_fds, pipe, errno, child, io, fill>>

\* The variables of the trial loop (all but io).
trial_vars == <<basic_block, accessed_addrs, n, num_accessed_blocks, status,
                returned, pc, result, wstatus, parent_fds, pipe_fds, pipe, errno,
                child>>

(***************************************************************************)
(* Bounds of the model.                                                    *)
(***************************************************************************)
NumPages == 2      \* distinct pages the block can fault on
MaxFds == 3        \* descriptors the process may still open (RLIMIT_NOFILE)
PipeFrames == 2    \* frames that fit the pipe buffer
FrameBytes == 3    \* sizeof(PipedData), in bytes, of the byte-level model
PipeBytes == 5     \* bytes that fit the pipe buffer of the byte-level model
FillBlockBytes == 512   \* block_size, in bytes, of the byte-level model of the fill

(***************************************************************************)
(* Program constants.                                                      *)
(***************************************************************************)
kDefaultCodeLocation == 45088768   \* 0x2b00'0000'0000 / 2^20
kInitialRegValue == 86016          \* 0x15000
kValues == {0, 86016, 16777216}    \* {0, 0x15000, 0x1000000}
kMaxRetries == 100                 \* n > 100
PageSize == 4096                   \* getpagesize()

\* An address the kernel picks for the trampoline when the hint is taken
\* (0x7f00'0000'0000 / 2^20): mmap without MAP_FIXED treats the address as a hint.
KernelChosenCode == 133169152

\* The registers of X64Regs that are modelled (rcx is the divisor of the
\* divide-error block); the other fifteen are set and randomised the same way.
Regs == {"rcx"}
FirstPage == kInitialRegValue
Pages == {FirstPage + i * PageSize : i \in 0..(NumPages - 1)}
FaultAddrs == {p + o : p \in Pages, o \in {0, PageSize - 1}}

(***************************************************************************)
(* absl::Status values: a code and a message.                              *)
(***************************************************************************)
OkStatus == [code |-> "ok", message |-> ""]
InternalError(m) == [code |-> "internal", message |-> m]
InvalidArgumentError(m) == [code |-> "invalid_argument", message |-> m]

\* absl::ErrnoToStatus for the error numbers the modelled system calls produce.
ErrnoToStatus(e, m) ==
    [code |-> CASE e \in {"EMFILE", "ENOMEM"} -> "resource_exhausted"
                [] e \in {"EAGAIN", "EINTR"} -> "unavailable"
                [] e = "ESRCH" -> "not_found"
                [] OTHER -> "unknown",
     message |-> m]

IsRetryable(err) == err \in {"EINTR", "EAGAIN"}

\* AlignDown without the alignment.
AlignDown_NoRounding(x, align) == x

AlignDown(x, align) == x - (x % align)

\* PipedData MakePipedData(): the zeroed frame.
MakePipedData == [status_code |-> "ok", status_message |-> "", code_address |-> 0]

NoChild ==
    [state |-> "none", pc |-> "none", sig |-> "none", si_addr |-> 0,
     errno |-> "0", wfd |-> FALSE, frame |-> MakePipedData, then |-> "none",
     desired_code_location |-> 0, mapped_address |-> 0,
     addrs |-> [code_location |-> 0, block_size |-> PageSize,
                accessed_blocks |-> <<>>,
                initial_regs |-> [r \in Regs |-> kInitialRegValue]]]

NoWait == [waited |-> FALSE, stopped |-> FALSE, sig |-> "none"]

(***************************************************************************)
(* The blocks: what executing the trampoline does, by block.               *)
(*   "any"      an arbitrary block: any stop, or the process terminates    *)
(*   "epilogue" the empty block: falls through to the epilogue (SIGABRT)   *)
(*   "xor_div"  xor rcx, rcx ; div rcx: a divide error whatever the regs   *)
(*   "ud2"      the illegal instruction                                    *)
(***************************************************************************)
Blocks == {"any", "epilogue", "xor_div", "ud2"}

Stop(sig, addr) == [kind |-> "stop", sig |-> sig, si_addr |-> addr]

BlockOutcomes(b) ==
    CASE b = "epilogue" -> {Stop("SIGABRT", 0)}
      [] b = "xor_div" -> {Stop("SIGFPE", 0)}
      [] b = "ud2" -> {Stop("SIGILL", 0)}
      [] OTHER -> {Stop("SIGSEGV", f) : f \in FaultAddrs}
                  \cup {Stop("SIGBUS", f) : f \in {FirstPage}}
                  \cup {Stop(s, 0) : s \in {"SIGABRT", "SIGFPE", "SIGILL"}}
                  \cup {[kind |-> "exit", sig |-> "none", si_addr |-> 0]}

(***************************************************************************)
(* The state after construction: FindAccessedAddrs has built              *)
(* accessed_addrs and is about to enter the do-loop.                       *)
(***************************************************************************)
\* No byte-level call is under way (the trial loop moves frame by frame).
NoIo ==
    [pc |-> "idle", current_offset |-> 0, bytes |-> 0, errno |-> "0",
     data |-> <<>>, buffer |-> <<>>, fd_open |-> FALSE, ret |-> OkStatus]

\* No block is followed byte by byte.
NoFill ==
    [pc |-> "idle", unmapped |-> <<>>, block |-> <<>>, i |-> 0, offset |-> 0,
     chunk |-> <<>>]

Init ==
    /\ basic_block \in Blocks
    /\ accessed_addrs = [code_location |-> 0, block_size |-> PageSize,
                         accessed_blocks |-> <<>>,
                         initial_regs |-> [r \in Regs |-> kInitialRegValue]]
    /\ n = 0
    /\ num_accessed_blocks = 0
    /\ status = OkStatus
    /\ returned = "none"
    /\ pc = "loop"
    /\ result = OkStatus
    /\ wstatus = NoWait
    /\ parent_fds = {}
    /\ pipe_fds = <<0, 0>>
    /\ pipe = <<>>
    /\ errno \in {"0", "EINTR"}
    /\ child = NoChild
    /\ io = NoIo
    /\ fill = NoFill

(***************************************************************************)
(* FindAccessedAddrs, top of the do-loop, and ForkAndTestAddresses up to   *)
(* pipe(): pipe() takes the two lowest free descriptors, or fails with     *)
(* EMFILE when fewer than two are left.                                    *)
(***************************************************************************)
FreeFds == (3..(2 + MaxFds)) \ parent_fds

LowestFree(S) == CHOOSE x \in S : \A y \in S : x <= y

TrialBegin ==
    /\ pc = "loop"
    /\ num_accessed_blocks' = Len(accessed_addrs.accessed_blocks)
    /\ IF Cardinality(FreeFds) < 2
       THEN /\ errno' = "EMFILE"
            /\ status' = ErrnoToStatus("EMFILE", "Failed to open pipe")
            /\ pc' = "ret"
            /\ UNCHANGED <<parent_fds, pipe_fds>>
       ELSE LET r == LowestFree(FreeFds)
                w == LowestFree(FreeFds \ {r})
            IN  /\ pipe_fds' = <<r, w>>
                /\ parent_fds' = parent_fds \cup {r, w}
                /\ pc' = "fork"
                /\ UNCHANGED <<errno, status>>
    /\ UNCHANGED <<fill, io, basic_block, accessed_addrs, n, returned, result, wstatus, pipe,
                   child>>

(***************************************************************************)
(* ForkAndTestAddresses: fork().  On failure the function returns at once. *)
(* The child is a copy of the parent (accessed_addrs, errno); it closes    *)
(* the read end and the parent closes the write end.                       *)
(***************************************************************************)
ForkChild ==
    [state |-> "running", pc |-> "traceme", sig |-> "none", si_addr |-> 0,
     errno |-> errno, wfd |-> TRUE, frame |-> MakePipedData, then |-> "none",
     desired_code_location |-> 0, mapped_address |-> 0,
     addrs |-> accessed_addrs]

Fork ==
    /\ pc = "fork"
    /\ \/ /\ errno' = "EAGAIN"
          /\ status' = ErrnoToStatus("EAGAIN", "Failed to fork")
          /\ pc' = "ret"
          /\ UNCHANGED <<child, parent_fds>>
       \/ /\ child' = ForkChild
          /\ parent_fds' = parent_fds \ {pipe_fds[2]}
          /\ pc' = "wait1"
          /\ UNCHANGED <<errno, status>>
    /\ UNCHANGED <<fill, io, basic_block, accessed_addrs, n, num_accessed_blocks, returned,
                   result, wstatus, pipe_fds, pipe>>

(***************************************************************************)
(* The child process.  It runs only while its state is "running"; a signal *)
(* it raises or receives stops it (it is traced), and it then stays        *)
(* stopped until the parent resumes or kills it.                           *)
(***************************************************************************)
ChildStops(c, sig, addr) ==
    [c EXCEPT !.state = "stopped", !.sig = sig, !.si_addr = addr]

\* The process is gone: the kernel closes its descriptors and frees its memory.
\* Three fields are kept as the record of its run: addrs (what it was forked
\* with), pc (how far it got) and mapped_address (where it put the trampoline).
ChildDies(c) ==
    [NoChild EXCEPT !.state = "zombie", !.pc = c.pc, !.addrs = c.addrs,
                    !.mapped_address = c.mapped_address]

\* ChildProcess without the raise(SIGSTOP): the child runs on by itself.
ChildTraceMe_NoStop ==
    /\ child.state = "running"
    /\ child.pc = "traceme"
    /\ child' = [child EXCEPT !.pc = "map_blocks"]
    /\ UNCHANGED <<fill, io, basic_block, accessed_addrs, n, num_accessed_blocks, status,
                   returned, pc, result, wstatus, parent_fds, pipe_fds, pipe, errno>>

\* ChildProcess: ptrace(PTRACE_TRACEME); raise(SIGSTOP).
ChildTraceMe ==
    /\ child.state = "running"
    /\ child.pc = "traceme"
    /\ child' = ChildStops([child EXCEPT !.pc = "map_blocks"], "SIGSTOP", 0)
    /\ UNCHANGED <<fill, io, basic_block, accessed_addrs, n, num_accessed_blocks, status,
                   returned, pc, result, wstatus, parent_fds, pipe_fds, pipe, errno>>

\* AbortChildProcess builds the frame that carries the status; the write and
\* the abort() follow in ChildWriteAll.
AbortChildProcess(c, st) ==
    [c EXCEPT !.frame = [MakePipedData EXCEPT !.status_code = st.code,
                                               !.status_message = st.message],
              !.pc = "write", !.then = "abort"]

\* What mapping the previously discovered blocks can come to: every block
\* lands at its address, or for some block mmap fails, or the mapping lands
\* somewhere else.
MapBlocksOutcomes(blocks) ==
    IF blocks = <<>> THEN {"mapped"} ELSE {"mapped", "failed", "moved"}

\* ChildProcess: munmap of the fill-pattern address, then the loop that maps
\* and fills every block of accessed_blocks.
ChildMapBlocks ==
    /\ child.state = "running"
    /\ child.pc = "map_blocks"
    /\ \E o \in MapBlocksOutcomes(child.addrs.accessed_blocks) :
         \/ /\ o = "mapped"
            /\ child' = [child EXCEPT !.pc = "map_code"]
         \/ /\ o = "failed"
            /\ \E e \in {"ENOMEM", "EAGAIN"} :
                 child' = AbortChildProcess([child EXCEPT !.errno = e],
                             InternalError("mapping previously discovered address failed"))
         \/ /\ o = "moved"
            /\ child' = AbortChildProcess(child,
                          InvalidArgumentError("mmap couldn't map this address"))
    /\ UNCHANGED <<fill, io, basic_block, accessed_addrs, n, num_accessed_blocks, status,
                   returned, pc, result, wstatus, parent_fds, pipe_fds, pipe, errno>>

\* The addresses mmap can return for the trampoline: the hint, or another
\* address of the kernel's choice; "MAP_FAILED" when it fails.
MmapCodeResults(desired) == {desired, KernelChosenCode}

\* ChildProcess with a frame that reports the address it asked for.
ChildMapCode_ReportsDesired ==
    /\ child.state = "running"
    /\ child.pc = "map_code"
    /\ LET desired_code_location ==
               IF child.addrs.code_location = 0 THEN kDefaultCodeLocation
               ELSE child.addrs.code_location
       IN  \/ child' = ChildStops([child EXCEPT
                                       !.desired_code_location = desired_code_location,
                                       !.errno = "ENOMEM", !.pc = "aborted"],
                                  "SIGABRT", 0)
           \/ \E mapped_address \in MmapCodeResults(desired_code_location) :
                child' = [child EXCEPT
                            !.desired_code_location = desired_code_location,
                            !.mapped_address = mapped_address,
                            !.frame = [MakePipedData EXCEPT
                                           !.code_address = desired_code_location],
                            !.pc = "write", !.then = "run"]
    /\ UNCHANGED <<fill, io, basic_block, accessed_addrs, n, num_accessed_blocks, status,
                   returned, pc, result, wstatus, parent_fds, pipe_fds, pipe, errno>>

\* ChildProcess: choose the code location, map the trampoline, build the ok
\* frame.  When mmap fails the child aborts without writing a frame.
ChildMapCode ==
    /\ child.state = "running"
    /\ child.pc = "map_code"
    /\ LET desired_code_location ==
               IF child.addrs.code_location = 0 THEN kDefaultCodeLocation
               ELSE child.addrs.code_location
       IN  \/ child' = ChildStops([child EXCEPT
                                       !.desired_code_location = desired_code_location,
                                       !.errno = "ENOMEM", !.pc = "aborted"],
                                  "SIGABRT", 0)
           \/ \E mapped_address \in MmapCodeResults(desired_code_location) :
                child' = [child EXCEPT
                            !.desired_code_location = desired_code_location,
                            !.mapped_address = mapped_address,
                            !.frame = [MakePipedData EXCEPT
                                           !.code_address = mapped_address],
                            !.pc = "write", !.then = "run"]
    /\ UNCHANGED <<fill, io, basic_block, accessed_addrs, n, num_accessed_blocks, status,
                   returned, pc, result, wstatus, parent_fds, pipe_fds, pipe, errno>>

(***************************************************************************)
(* WriteAll in the child, frame by frame.  One write() of a whole frame    *)
(* either fails (errno is set) or puts the frame on the pipe and leaves    *)
(* errno as it was; it blocks while the pipe is full.  The inner do-while  *)
(* tests errno after every call, so it repeats a write that succeeded when *)
(* errno already held a retryable code.  On success the descriptor is      *)
(* closed; then abort() (a failed frame, or a failed write of the ok       *)
(* frame) or the jump into the trampoline.                                 *)
(***************************************************************************)
\* The child that goes on without having written its frame.
ChildWriteAll_Deferred ==
    /\ child.state = "running"
    /\ child.pc = "write"
    /\ pipe' = pipe
    /\ child' = IF child.then = "run"
                THEN [child EXCEPT !.pc = "run"]
                ELSE ChildStops([child EXCEPT !.pc = "aborted"], "SIGABRT", 0)
    /\ UNCHANGED <<fill, io, basic_block, accessed_addrs, n, num_accessed_blocks, status,
                   returned, pc, result, wstatus, parent_fds, pipe_fds, errno>>

ChildWriteAll ==
    /\ child.state = "running"
    /\ child.pc = "write"
    /\ \/ /\ Len(pipe) < PipeFrames
          /\ pipe' = Append(pipe, child.frame)
          /\ child' = IF IsRetryable(child.errno) THEN child
                      ELSE IF child.then = "run"
                           THEN [child EXCEPT !.wfd = FALSE, !.pc = "run",
                                              !.frame = MakePipedData]
                           ELSE ChildStops([child EXCEPT !.wfd = FALSE, !.pc = "aborted",
                                                         !.frame = MakePipedData],
                                           "SIGABRT", 0)
       \/ /\ pipe' = pipe
          /\ child' = ChildStops([child EXCEPT !.errno = "EIO", !.pc = "aborted"],
                                 "SIGABRT", 0)
    /\ UNCHANGED <<fill, io, basic_block, accessed_addrs, n, num_accessed_blocks, status,
                   returned, pc, result, wstatus, parent_fds, pipe_fds, errno>>

\* ChildProcess: copy the code and call it; what happens is the block's doing.
ChildRunBlock ==
    /\ child.state = "running"
    /\ child.pc = "run"
    /\ \E o \in BlockOutcomes(basic_block) :
         child' = IF o.kind = "stop"
                  THEN ChildStops([child EXCEPT !.pc = "in_block"], o.sig, o.si_addr)
                  ELSE ChildDies([child EXCEPT !.pc = "in_block"])
    /\ UNCHANGED <<fill, io, basic_block, accessed_addrs, n, num_accessed_blocks, status,
                   returned, pc, result, wstatus, parent_fds, pipe_fds, pipe, errno>>

\* The running child is killed from outside (SIGKILL is not reported as a stop).
ChildKilled ==
    /\ child.state = "running"
    /\ child' = ChildDies(child)
    /\ UNCHANGED <<fill, io, basic_block, accessed_addrs, n, num_accessed_blocks, status,
                   returned, pc, result, wstatus, parent_fds, pipe_fds, pipe, errno>>

(***************************************************************************)
(* ParentProcessInner.  waitpid returns when the child has stopped or has  *)
(* terminated; a terminated child is reaped by that very call.             *)
(***************************************************************************)
WaitChild(next) ==
    /\ child.state \in {"stopped", "zombie"}
    /\ IF child.state = "stopped"
       THEN /\ wstatus' = [waited |-> TRUE, stopped |-> TRUE, sig |-> child.sig]
            /\ pc' = next
            /\ UNCHANGED <<child, result>>
       ELSE /\ wstatus' = [waited |-> TRUE, stopped |-> FALSE, sig |-> "none"]
            /\ child' = [child EXCEPT !.state = "reaped"]
            /\ result' = InternalError("Child terminated with an unexpected status")
            /\ pc' = "kill"
    /\ UNCHANGED <<fill, io, basic_block, accessed_addrs, n, num_accessed_blocks, status,
                   returned, parent_fds, pipe_fds, pipe, errno>>

\* The first waitpid and its WIFSTOPPED test.
ParentWait1 == pc = "wait1" /\ WaitChild("cont")

\* ptrace(PTRACE_CONT): the stopped child runs on, the signal is not delivered.
ParentCont ==
    /\ pc = "cont"
    /\ child' = [child EXCEPT !.state = "running", !.sig = "none"]
    /\ pc' = "wait2"
    /\ UNCHANGED <<fill, io, basic_block, accessed_addrs, n, num_accessed_blocks, status,
                   returned, result, wstatus, parent_fds, pipe_fds, pipe, errno>>

\* The second waitpid and its WIFSTOPPED test.
ParentWait2 == pc = "wait2" /\ WaitChild("classify")

\* The SIGSEGV branch without the std::find test.
RecordFault_NoFind(blocks, si_addr, block_size) ==
    Append(blocks, si_addr - (si_addr % block_size))

\* The SIGSEGV branch: align the fault address down, append it when absent.
RecordFault(blocks, si_addr, block_size) ==
    LET addr == AlignDown(si_addr, block_size)
    IN  IF \A i \in 1..Len(blocks) : blocks[i] # addr
        THEN Append(blocks, addr)
        ELSE blocks

\* The classification with an unexpected signal taken for a fixable failure.
ClassifyStatus_UnexpectedFixable(signal) ==
    CASE signal = "SIGSEGV" -> [code |-> "ok", message |-> ""]
      [] signal = "SIGABRT" -> [code |-> "ok", message |-> ""]
      [] OTHER -> [code |-> "invalid_argument", message |-> "Child stopped"]

\* The status ParentProcessInner returns for the signal of the outcome stop.
ClassifyStatus(signal) ==
    CASE signal = "SIGSEGV" -> OkStatus
      [] signal = "SIGABRT" -> OkStatus
      [] signal = "SIGFPE" -> InvalidArgumentError("Floating point exception")
      [] signal = "SIGBUS" ->
             InternalError("Child stopped with unexpected signal, address")
      [] OTHER -> InternalError("Child stopped with unexpected signal")

\* The classification with SIGBUS recorded like SIGSEGV.
ClassifyBlocks_BusRecorded(signal, si_addr, addrs) ==
    IF signal \in {"SIGSEGV", "SIGBUS"}
    THEN Append(addrs.accessed_blocks, si_addr - (si_addr % addrs.block_size))
    ELSE addrs.accessed_blocks

\* The accessed_blocks ParentProcessInner leaves for the outcome stop.
ClassifyBlocks(signal, si_addr, addrs) ==
    IF signal = "SIGSEGV"
    THEN RecordFault(addrs.accessed_blocks, si_addr, addrs.block_size)
    ELSE addrs.accessed_blocks

\* ParentProcess that reads the pipe as soon as the stop is classified as ok.
ParentClassify_ReadFirst ==
    /\ pc = "classify"
    /\ accessed_addrs' =
           [accessed_addrs EXCEPT !.accessed_blocks =
                ClassifyBlocks(wstatus.sig, child.si_addr, accessed_addrs)]
    /\ result' = ClassifyStatus(wstatus.sig)
    /\ pc' = IF ClassifyStatus(wstatus.sig).code = "ok" THEN "read" ELSE "kill"
    /\ UNCHANGED <<fill, io, basic_block, n, num_accessed_blocks, status, returned, wstatus,
                   parent_fds, pipe_fds, pipe, errno, child>>

ParentClassify ==
    /\ pc = "classify"
    /\ accessed_addrs' =
           [accessed_addrs EXCEPT !.accessed_blocks =
                ClassifyBlocks(wstatus.sig, child.si_addr, accessed_addrs)]
    /\ result' = ClassifyStatus(wstatus.sig)
    /\ pc' = "kill"
    /\ UNCHANGED <<fill, io, basic_block, n, num_accessed_blocks, status, returned, wstatus,
                   parent_fds, pipe_fds, pipe, errno, child>>

(***************************************************************************)
(* ParentProcess after ParentProcessInner.  kill(child_pid, SIGKILL)       *)
(* succeeds while the child exists as a process, stopped or not; it fails  *)
(* with ESRCH once the child has been reaped.  When it fails the function  *)
(* returns at once.                                                        *)
(***************************************************************************)
ParentKill ==
    /\ pc = "kill"
    /\ IF child.state = "reaped"
       THEN /\ errno' = "ESRCH"
            /\ status' = InternalError("Failed to kill child process")
            /\ pc' = "ret"
            /\ UNCHANGED child
       ELSE /\ child' = ChildDies(child)
            /\ pc' = "reap"
            /\ UNCHANGED <<errno, status>>
    /\ UNCHANGED <<fill, io, basic_block, accessed_addrs, n, num_accessed_blocks, returned,
                   result, wstatus, parent_fds, pipe_fds, pipe>>

\* ParentProcess without the waitpid that follows the kill.
ParentReap_NoWaitpid ==
    /\ pc = "reap"
    /\ IF result.code # "ok"
       THEN status' = result /\ pc' = "ret"
       ELSE status' = status /\ pc' = "read"
    /\ UNCHANGED <<fill, io, basic_block, accessed_addrs, n, num_accessed_blocks, returned,
                   result, wstatus, parent_fds, pipe_fds, pipe, errno, child>>

\* waitpid(child_pid, nullptr, 0), then the test of result.
ParentReap ==
    /\ pc = "reap"
    /\ child' = [child EXCEPT !.state = "reaped"]
    /\ IF result.code # "ok"
       THEN status' = result /\ pc' = "ret"
       ELSE status' = status /\ pc' = "read"
    /\ UNCHANGED <<fill, io, basic_block, accessed_addrs, n, num_accessed_blocks, returned,
                   result, wstatus, parent_fds, pipe_fds, pipe, errno>>

(***************************************************************************)
(* ReadAll in the parent, frame by frame, and the rest of ParentProcess.   *)
(* A read() fails (errno is set), or returns a whole frame, or returns 0   *)
(* at end of file (the pipe is empty and no process holds the write end);  *)
(* a call that does not fail leaves errno as it was.  The inner do-while   *)
(* tests errno after every call: with a retryable code already in errno it *)
(* repeats the read at the same offset, and at end of file it repeats for  *)
(* ever.  The descriptor is closed only when a whole frame was read.       *)
(***************************************************************************)
ParentReadAll ==
    /\ pc = "read"
    /\ \/ /\ errno' = "EIO"
          /\ status' = ErrnoToStatus("EIO", "Failed to read from pipe")
          /\ pc' = "ret"
          /\ UNCHANGED <<pipe, parent_fds, accessed_addrs>>
       \/ /\ IsRetryable(errno)
          /\ pipe # <<>>
          /\ pipe' = Tail(pipe)
          /\ UNCHANGED <<errno, status, pc, parent_fds, accessed_addrs>>
       \/ /\ ~IsRetryable(errno)
          /\ pipe = <<>>
          /\ status' = InternalError("Read less than expected from pipe")
          /\ pc' = "ret"
          /\ UNCHANGED <<errno, pipe, parent_fds, accessed_addrs>>
       \/ /\ ~IsRetryable(errno)
          /\ pipe # <<>>
          /\ pipe' = Tail(pipe)
          /\ parent_fds' = parent_fds \ {pipe_fds[1]}
          /\ LET pipe_data == Head(pipe)
             IN  IF pipe_data.status_code # "ok"
                 THEN /\ status' = [code |-> pipe_data.status_code,
                                    message |-> pipe_data.status_message]
                      /\ UNCHANGED accessed_addrs
                 ELSE /\ accessed_addrs' =
                             [accessed_addrs EXCEPT !.code_location =
                                                        pipe_data.code_address]
                      /\ status' = OkStatus
          /\ pc' = "ret"
          /\ UNCHANGED errno
    /\ UNCHANGED <<fill, io, basic_block, n, num_accessed_blocks, returned, result, wstatus,
                   pipe_fds, child>>

(***************************************************************************)
(* FindAccessedAddrs: what the do-loop does with the status of a trial.    *)
(***************************************************************************)
RandomiseRegs == [Regs -> kValues]

\* The do-loop without the retry limit.
RetryLimitReached_Never(count) == FALSE

\* The do-loop with the limit tested one trial early.
RetryLimitReached_OffByOne(count) == count >= kMaxRetries

RetryLimitReached(count) == count > kMaxRetries

LoopAgain(size, before) == size # before

\* The do-loop goes round: the locals of the finished trial (status, and
\* the locals and the pipe of ForkAndTestAddresses) are out of scope.
NextIteration ==
    /\ pc' = "loop"
    /\ status' = OkStatus
    /\ result' = OkStatus
    /\ wstatus' = NoWait
    /\ pipe_fds' = <<0, 0>>
    /\ pipe' = <<>>
    /\ UNCHANGED returned

\* FindAccessedAddrs returns: the status, or accessed_addrs.
Return(what) ==
    /\ pc' = "done"
    /\ returned' = what
    /\ UNCHANGED <<status, result, wstatus, pipe_fds, pipe>>

DriverStep ==
    /\ pc = "ret"
    /\ IF status.code = "invalid_argument" /\ RetryLimitReached(n)
       THEN /\ Return("error")
            /\ UNCHANGED <<accessed_addrs, n>>
       ELSE IF status.code = "invalid_argument"
       THEN /\ \E regs \in RandomiseRegs :
                 accessed_addrs' = [accessed_addrs EXCEPT !.accessed_blocks = <<>>,
                                                          !.initial_regs = regs]
            /\ n' = n + 1
            /\ IF LoopAgain(0, num_accessed_blocks)
               THEN NextIteration
               ELSE Return("value")
       ELSE IF status.code # "ok"
       THEN /\ Return("error")
            /\ UNCHANGED <<accessed_addrs, n>>
       ELSE /\ n' = n + 1
            /\ IF LoopAgain(Len(accessed_addrs.accessed_blocks), num_accessed_blocks)
               THEN NextIteration
               ELSE Return("value")
            /\ UNCHANGED accessed_addrs
    /\ UNCHANGED <<fill, io, basic_block, num_accessed_blocks, parent_fds, errno, child>>

Next ==
    \/ TrialBegin
    \/ Fork
    \/ ChildTraceMe
    \/ ChildMapBlocks
    \/ ChildMapCode
    \/ ChildWriteAll
    \/ ChildRunBlock
    \/ ChildKilled
    \/ ParentWait1
    \/ ParentCont
    \/ ParentWait2
    \/ ParentClassify
    \/ ParentKill
    \/ ParentReap
    \/ ParentReadAll
    \/ DriverStep

Spec == Init /\ [][Next]_vars

(***************************************************************************)
(* WriteAll and ReadAll byte by byte.  The frame is FrameBytes bytes; byte *)
(* i of the frame has the value i, so that order and repetition show.  A   *)
(* write() or read() that fails returns -1 and sets errno; one that        *)
(* succeeds leaves errno as it was.  io.data is what the pipe holds.       *)
(***************************************************************************)
Frame == [i \in 1..FrameBytes |-> i]

\* The codes a write() or read() on the pipe fails with.
Errors == {"EINTR", "EAGAIN", "EIO"}

Min(a, b) == IF a < b THEN a ELSE b

\* The trial loop at rest, with blocks of the given size.
TrialAtRest(block_size) ==
    /\ basic_block = "any"
    /\ accessed_addrs = [code_location |-> 0, block_size |-> block_size,
                         accessed_blocks |-> <<>>,
                         initial_regs |-> [r \in Regs |-> kInitialRegValue]]
    /\ n = 0
    /\ num_accessed_blocks = 0
    /\ status = OkStatus
    /\ returned = "none"
    /\ pc = "loop"
    /\ result = OkStatus
    /\ wstatus = NoWait
    /\ parent_fds = {}
    /\ pipe_fds = <<0, 0>>
    /\ pipe = <<>>
    /\ errno = "0"
    /\ child = NoChild

\* The trial loop at rest, while one call is followed byte by byte.
TrialIdle == TrialAtRest(PageSize)

\* WriteAll is entered with an empty pipe and whatever errno holds.
InitWriteAll ==
    /\ TrialIdle
    /\ fill = NoFill
    /\ \E e \in {"0"} \cup Errors :
         io = [NoIo EXCEPT !.pc = "write", !.errno = e, !.fd_open = TRUE]

\* bytes_written = write(fd, data + current_offset, to_write): it fails, or
\* writes some or all of the bytes asked for (as many as the pipe has room
\* for; with no room it blocks).
WriteCall ==
    /\ io.pc = "write"
    /\ LET to_write == FrameBytes - io.current_offset
       IN  \/ \E e \in Errors :
                io' = [io EXCEPT !.bytes = -1, !.errno = e, !.pc = "test"]
           \/ \E k \in 1..Min(to_write, PipeBytes - Len(io.data)) :
                io' = [io EXCEPT
                         !.bytes = k,
                         !.data = io.data \o SubSeq(Frame, io.current_offset + 1,
                                                     io.current_offset + k),
                         !.pc = "test"]
    /\ UNCHANGED <<trial_vars, fill>>

\* err = errno; the do-while test; the test of bytes_written; the addition
\* to current_offset; the outer while test; close(fd) and the return.
WriteTest ==
    /\ io.pc = "test"
    /\ io' = IF IsRetryable(io.errno)
             THEN [io EXCEPT !.pc = "write"]
             ELSE IF io.bytes < 0
             THEN [io EXCEPT !.pc = "done",
                             !.ret = ErrnoToStatus(io.errno, "Failed to write to pipe")]
             ELSE IF io.current_offset + io.bytes < FrameBytes
             THEN [io EXCEPT !.current_offset = @ + io.bytes, !.pc = "write"]
             ELSE [io EXCEPT !.current_offset = @ + io.bytes, !.pc = "done",
                             !.fd_open = FALSE, !.ret = OkStatus]
    /\ UNCHANGED <<trial_vars, fill>>

NextWriteAll ==
    \/ WriteCall
    \/ WriteTest

SpecWriteAll == InitWriteAll /\ [][NextWriteAll]_vars

\* ReadAll is entered when the child is dead: the pipe holds what the child
\* wrote of its frame before it died (all of it, a part, or nothing) and no
\* process holds the write end.  The buffer is not initialised (0 here).
InitReadAll ==
    /\ TrialIdle
    /\ fill = NoFill
    /\ \E e \in {"0"} \cup Errors, len \in 0..FrameBytes :
         io = [NoIo EXCEPT !.pc = "read", !.errno = e, !.fd_open = TRUE,
                           !.data = SubSeq(Frame, 1, len),
                           !.buffer = [i \in 1..FrameBytes |-> 0]]

\* bytes_read = read(fd, data + current_offset, to_read): it fails, or
\* delivers some or all of the bytes asked for, or returns 0 at end of file.
ReadCall ==
    /\ io.pc = "read"
    /\ LET to_read == FrameBytes - io.current_offset
       IN  \/ \E e \in Errors :
                io' = [io EXCEPT !.bytes = -1, !.errno = e, !.pc = "test"]
           \/ \E k \in 1..Min(to_read, Len(io.data)) :
                io' = [io EXCEPT
                         !.bytes = k,
                         !.buffer = [i \in 1..FrameBytes |->
                                        IF i \in (io.current_offset + 1)..(io.current_offset + k)
                                        THEN io.data[i - io.current_offset]
                                        ELSE io.buffer[i]],
                         !.data = SubSeq(io.data, k + 1, Len(io.data)),
                         !.pc = "test"]
           \/ /\ io.data = <<>>
              /\ io' = [io EXCEPT !.bytes = 0, !.pc = "test"]
    /\ UNCHANGED <<trial_vars, fill>>

\* err = errno; the do-while test; the tests of bytes_read; the addition to
\* current_offset; the outer while test; the test of current_offset,
\* close(fd) and the return.
ReadTest ==
    /\ io.pc = "test"
    /\ io' = IF IsRetryable(io.errno)
             THEN [io EXCEPT !.pc = "read"]
             ELSE IF io.bytes < 0
             THEN [io EXCEPT !.pc = "done",
                             !.ret = ErrnoToStatus(io.errno, "Failed to read from pipe")]
             ELSE IF io.bytes = 0
             THEN [io EXCEPT !.pc = "done",
                             !.ret = InternalError("Read less than expected from pipe")]
             ELSE IF io.current_offset + io.bytes < FrameBytes
             THEN [io EXCEPT !.current_offset = @ + io.bytes, !.pc = "read"]
             ELSE [io EXCEPT !.current_offset = @ + io.bytes, !.pc = "done",
                             !.fd_open = FALSE, !.ret = OkStatus]
    /\ UNCHANGED <<trial_vars, fill>>

NextReadAll ==
    \/ ReadCall
    \/ ReadTest

SpecReadAll == InitReadAll /\ [][NextReadAll]_vars

(***************************************************************************)
(* One discovered block in the child, byte by byte: the munmap, the mmap   *)
(* of the block, the fill loop, and aligned 8-byte reads of the block.     *)
(* A 64-bit value is four 16-bit limbs, the lowest first (the integers of  *)
(* TLC have 32 bits).                                                      *)
(***************************************************************************)
kUnmapLength == 65536   \* 0x10000
kFillByte == 8
kFillStride == 4
WordBytes == 8          \* sizeof(uint64_t)

\* A base of 0x8000'0000 in place of 0x8'0000'0000.
kUnmapBase_Low == <<0, 32768, 0, 0>>

\* 0x8'0000'0000, the address given to munmap.
kUnmapBase == <<0, 0, 8, 0>>

\* The little-endian value of eight bytes in memory order.
Limbs(bytes) == [j \in 1..4 |-> bytes[2 * j - 1] + 256 * bytes[2 * j]]

\* a < b, on 64-bit values.
LessLimbs(a, b) ==
    \E j \in 1..4 : a[j] < b[j] /\ \A k \in (j + 1)..4 : a[k] = b[k]

\* a + len modulo 2^64, for a length below 2^31.
AddLimbs(a, len) ==
    LET s1 == a[1] + (len % 65536)
        s2 == a[2] + (len \div 65536) + (s1 \div 65536)
        s3 == a[3] + (s2 \div 65536)
        s4 == a[4] + (s3 \div 65536)
    IN  <<s1 % 65536, s2 % 65536, s3 % 65536, s4 % 65536>>

\* The address lies in [base, base + length).
InRange(address, base, length) ==
    /\ ~LessLimbs(address, base)
    /\ LessLimbs(address, AddLimbs(base, length))

InitFill ==
    /\ TrialAtRest(FillBlockBytes)
    /\ io = NoIo
    /\ fill = [NoFill EXCEPT !.pc = "munmap"]

\* munmap(0x800000000, 0x10000); its return value is not looked at.
FillUnmap ==
    /\ fill.pc = "munmap"
    /\ fill' = [fill EXCEPT !.unmapped = [base |-> kUnmapBase,
                                           length |-> kUnmapLength],
                            !.pc = "mmap"]
    /\ UNCHANGED <<trial_vars, io>>

\* mmap of a discovered block: block_size bytes of fresh anonymous memory,
\* which the kernel hands out zeroed.
FillMap ==
    /\ fill.pc = "mmap"
    /\ fill' = [fill EXCEPT
                   !.block = [o \in 0..(accessed_addrs.block_size - 1) |-> 0],
                   !.i = 0,
                   !.pc = "fill"]
    /\ UNCHANGED <<trial_vars, io>>

\* for (int i = 0; i < block_size; i += 4) block[i] = 8;
FillStep ==
    /\ fill.pc = "fill"
    /\ fill' = IF fill.i < accessed_addrs.block_size
               THEN [fill EXCEPT !.block[fill.i] = kFillByte,
                                 !.i = fill.i + kFillStride]
               ELSE [fill EXCEPT !.pc = "filled"]
    /\ UNCHANGED <<trial_vars, io>>

\* The block under test reads eight bytes at an 8-byte aligned offset of the
\* filled block.
FillRead ==
    /\ fill.pc = "filled"
    /\ \E o \in {w * WordBytes : w \in 0..((accessed_addrs.block_size \div WordBytes) - 1)} :
         fill' = [fill EXCEPT
                    !.offset = o,
                    !.chunk = [k \in 1..WordBytes |-> fill.block[o + k - 1]],
                    !.pc = "read"]
    /\ UNCHANGED <<trial_vars, io>>

NextFill ==
    \/ FillUnmap
    \/ FillMap
    \/ FillStep
    \/ FillRead

SpecFill == InitFill /\ [][NextFill]_vars

(***************************************************************************)
(* Properties.                                                             *)
(***************************************************************************)
Elements(seq) == {seq[i] : i \in 1..Len(seq)}

Succeeded == pc = "done" /\ returned = "value"

\* The outcome stop of the finished trial is none of SIGSEGV, SIGABRT, SIGFPE,
\* or the child terminated instead of stopping.
UnexpectedOutcome ==
    /\ wstatus.waited
    /\ \/ ~wstatus.stopped
       \/ wstatus.sig \notin {"SIGSEGV", "SIGABRT", "SIGFPE"}

\* C1: whenever FindAccessedAddrs returns successfully, its last trial ran
\* with exactly the returned initial_regs and with the returned
\* accessed_blocks mapped, and that trial was ok and added no address.
C1_ResultIsFixedPoint ==
    Succeeded =>
        /\ child.state # "none"
        /\ status.code = "ok"
        /\ child.addrs.initial_regs = accessed_addrs.initial_regs
        /\ child.addrs.accessed_blocks = accessed_addrs.accessed_blocks

\* C2: for the block xor rcx, rcx ; div rcx, whose every run ends in SIGFPE,
\* an invocation whose last trial ended in the fixable failure returns an
\* error (invalid-argument), never a successful result.
C2_DivideErrorBlockFails ==
    (pc = "done" /\ basic_block = "xor_div" /\ status.code = "invalid_argument")
        => returned = "error"

\* C3: in every successful result code_location is nonzero.
C3_CodeLocationNonzero ==
    Succeeded => accessed_addrs.code_location # 0

\* C4: in every state every element of accessed_blocks is a multiple of
\* block_size and no element appears twice.
C4_AlignedNoDuplicates ==
    LET blocks == accessed_addrs.accessed_blocks
    IN  /\ \A i \in 1..Len(blocks) : blocks[i] % accessed_addrs.block_size = 0
        /\ \A i, j \in 1..Len(blocks) : blocks[i] = blocks[j] => i = j

\* C4 witness: after clears, an unaligned fault on a page has been classified
\* while two blocks are recorded.
C4_Witness ==
    /\ pc = "kill"
    /\ wstatus.sig = "SIGSEGV"
    /\ child.si_addr % accessed_addrs.block_size # 0
    /\ Len(accessed_addrs.accessed_blocks) = 2
    /\ n >= 2

\* C5: the number of trials is bounded: at most kMaxRetries + 1 trials, plus
\* one per block recorded since, plus the one that adds nothing.  Fixable
\* failures and discoveries cannot alternate beyond that.
C5_TrialsBounded ==
    n <= (kMaxRetries + 1) + Len(accessed_addrs.accessed_blocks) + 1

\* C5 witness: a successful return that used the whole budget.
C5_Witness ==
    /\ Succeeded
    /\ Len(accessed_addrs.accessed_blocks) = NumPages
    /\ n = (kMaxRetries + 1) + NumPages + 1

\* C6: whenever the parent is outside ParentProcess, the child of the last
\* trial, if one was forked, is dead and has been reaped by waitpid.
C6_NoZombie ==
    pc \in {"loop", "fork", "ret", "done"} => child.state \in {"none", "reaped"}

\* C6 witness: the invocation returned through the path on which kill fails.
C6_Witness ==
    /\ pc = "done"
    /\ status = InternalError("Failed to kill child process")
    /\ child.state = "reaped"

\* C7: after the entry point returns no pipe descriptor opened by a trial is
\* open in the parent.
C7_NoLeakedPipeFd ==
    pc = "done" => parent_fds = {}

\* C8: a trial whose outcome is unexpected yields an internal error, and the
\* driver returns that status at once: no further trial, no change of
\* accessed_addrs (the registers are not randomised).
C8_UnexpectedIsFinal ==
    [][(pc = "ret" /\ UnexpectedOutcome) =>
           /\ status.code = "internal"
           /\ pc' = "done"
           /\ returned' = "error"
           /\ status' = status
           /\ accessed_addrs' = accessed_addrs
           /\ n' = n]_vars

\* C8 witness: the ud2 block has made the invocation return.
C8_Witness ==
    /\ pc = "done"
    /\ basic_block = "ud2"
    /\ wstatus.sig = "SIGILL"
    /\ returned = "error"
    /\ status.code = "internal"

\* C9: classifying a SIGSEGV stop with fault address f, with a = f - (f mod
\* block_size): the old accessed_blocks is a prefix of the new one, the new one
\* holds a in addition, it is longer by one exactly when a was absent, and the
\* classification result is ok.
C9_SegvRecordsPage ==
    [][(pc = "classify" /\ wstatus.sig = "SIGSEGV") =>
           LET f == child.si_addr
               a == f - (f % accessed_addrs.block_size)
               old == accessed_addrs.accessed_blocks
               new == accessed_addrs'.accessed_blocks
           IN  /\ Len(new) = Len(old) + (IF a \in Elements(old) THEN 0 ELSE 1)
               /\ SubSeq(new, 1, Len(old)) = old
               /\ Elements(new) = Elements(old) \cup {a}
               /\ result'.code = "ok"]_vars

\* C9 witness: an unaligned fault address has been appended behind an
\* earlier block.
C9_Witness ==
    /\ pc = "kill"
    /\ wstatus.sig = "SIGSEGV"
    /\ child.si_addr % accessed_addrs.block_size # 0
    /\ Len(accessed_addrs.accessed_blocks) = 2
    /\ num_accessed_blocks = 1
    /\ accessed_addrs.accessed_blocks[2] = AlignDown(child.si_addr, PageSize)

\* C10: no step of a trial changes block_size or initial_regs; only the
\* classification of a SIGSEGV stop changes accessed_blocks; and a trial with
\* a SIGABRT stop whose ok frame is read returns ok with the accessed_blocks
\* the child was forked with.
C10_TrialFrame ==
    [][/\ pc # "ret" =>
             /\ accessed_addrs'.block_size = accessed_addrs.block_size
             /\ accessed_addrs'.initial_regs = accessed_addrs.initial_regs
       /\ (pc # "ret" /\ ~(pc = "classify" /\ wstatus.sig = "SIGSEGV")) =>
             accessed_addrs'.accessed_blocks = accessed_addrs.accessed_blocks
       /\ (/\ pc = "read" /\ pc' = "ret"
           /\ wstatus.sig = "SIGABRT"
           /\ pipe # <<>> /\ pipe' = Tail(pipe)
           /\ Head(pipe).status_code = "ok") =>
             /\ status'.code = "ok"
             /\ accessed_addrs'.accessed_blocks = child.addrs.accessed_blocks]_vars

\* C10 witness: a trial with a SIGABRT stop has returned ok while a block
\* is recorded.
C10_Witness ==
    /\ pc = "ret"
    /\ wstatus.sig = "SIGABRT"
    /\ status.code = "ok"
    /\ pipe_fds[1] \notin parent_fds
    /\ Len(accessed_addrs.accessed_blocks) >= 1

\* C11: a child that failed to re-map a discovered block writes its frame and
\* aborts, so that the failure becomes the result of the trial: while such a
\* child is still running it has put nothing on the pipe yet (the write of
\* the frame is followed at once by abort()), and the frame it wrote is the
\* only one on the pipe when it has stopped.
C11_RemapFailureReachesDriver ==
    /\ (child.then = "abort" /\ child.state = "running") => pipe = <<>>
    /\ (child.then = "abort" /\ child.state = "stopped") => Len(pipe) <= 1

\* What the driver does with a fixable (invalid-argument) trial outcome: it
\* is returned as the error exactly when n exceeds 100 at that moment,
\* otherwise accessed_blocks is cleared, initial_regs is re-randomised and n
\* goes up by one.  A randomisation therefore happens only with n in 0..100,
\* and n rises with each: at most 101 of them in one invocation.
FixableOutcomeCapped ==
    (pc = "ret" /\ status.code = "invalid_argument") =>
        IF n > kMaxRetries
        THEN /\ pc' = "done"
             /\ returned' = "error"
             /\ status' = status
             /\ accessed_addrs' = accessed_addrs
             /\ n' = n
        ELSE /\ returned' # "error"
             /\ accessed_addrs'.accessed_blocks = <<>>
             /\ accessed_addrs'.initial_regs \in RandomiseRegs
             /\ accessed_addrs'.code_location = accessed_addrs.code_location
             /\ n' = n + 1

\* C12 as stated: the cap, and a counter that counts fixable-failure
\* retries, that is, one that moves only when a trial was a fixable failure.
C12_CounterCountsFixableRetries ==
    [][/\ FixableOutcomeCapped
       /\ (n' # n => status.code = "invalid_argument")]_vars

\* C12 amended: the cap, and a counter that counts trials: n goes up by one
\* after every trial that does not end the invocation with an error, an ok
\* trial as much as a fixable failure, and changes nowhere else.
C12_CounterCountsTrials ==
    [][/\ FixableOutcomeCapped
       /\ (pc = "ret" /\ status.code = "ok" => n' = n + 1)
       /\ (n' # n => /\ pc = "ret"
                      /\ status.code \in {"ok", "invalid_argument"}
                      /\ n' = n + 1)]_vars

\* C12 witness: a fixable failure met the exhausted counter and was returned.
C12_Witness ==
    /\ pc = "done"
    /\ returned = "error"
    /\ status.code = "invalid_argument"
    /\ n = kMaxRetries + 1

\* After a trial that returns ok, code_location is the address at which the
\* child of that trial mapped the trampoline (the code_address of its frame);
\* nothing else changes code_location, so a trial that returns an error
\* leaves it as it was.
CodeLocationFollowsFrame ==
    /\ (pc = "read" /\ pc' = "ret" /\ status'.code = "ok") =>
           /\ child.mapped_address # 0
           /\ accessed_addrs'.code_location = child.mapped_address
    /\ (accessed_addrs'.code_location # accessed_addrs.code_location) =>
           (pc = "read" /\ pc' = "ret" /\ status'.code = "ok")

\* C13 as stated: once a trial has returned ok, every later trial asks for
\* the address of that trial's frame.  A child is forked with the
\* code_location it will ask for; when the child of the trial before was
\* itself forked with a code_location (an ok trial came before it), the new
\* child is forked with that same one.
C13_SameAddressEveryLaterTrial ==
    [][/\ CodeLocationFollowsFrame
       /\ (pc = "fork" /\ child'.state = "running"
               /\ child.addrs.code_location # 0) =>
              child'.addrs.code_location = child.addrs.code_location]_vars

\* C13 amended: every trial asks for the address of the frame of the most
\* recent trial that returned ok (the default address while there is none),
\* which is the parent's code_location at the time the child maps its code.
C13_RequestsLatestOkAddress ==
    [][/\ CodeLocationFollowsFrame
       /\ (child.pc = "map_code" /\ child'.pc # "map_code"
               /\ child'.state # "zombie") =>
              child'.desired_code_location =
                  IF accessed_addrs.code_location = 0 THEN kDefaultCodeLocation
                  ELSE accessed_addrs.code_location]_vars

\* C13 witness: a trial that asked for the address of an earlier ok trial
\* got another one from the kernel, returned ok, and code_location follows.
C13_Witness ==
    /\ pc = "ret"
    /\ status.code = "ok"
    /\ child.addrs.code_location = kDefaultCodeLocation
    /\ child.mapped_address = KernelChosenCode
    /\ accessed_addrs.code_location = KernelChosenCode

\* C14: the ok frame is completely on the pipe before the block runs.  From
\* the jump into the trampoline until the parent reads, the pipe holds
\* exactly one frame: status ok, and the address at which the child mapped
\* the code.  In particular it is there when the parent, having classified
\* a SIGSEGV or SIGABRT stop of the block as ok, comes to read.
C14_FrameBeforeBlock ==
    (/\ child.pc \in {"run", "in_block"}
     /\ pc \in {"wait2", "classify", "kill", "reap", "read"}) =>
        /\ child.mapped_address # 0
        /\ pipe = <<[MakePipedData EXCEPT !.code_address = child.mapped_address]>>

\* C14 witness: the block has faulted, the child has been killed and reaped,
\* and the parent is about to read the frame.
C14_Witness ==
    /\ pc = "read"
    /\ child.pc = "in_block"
    /\ wstatus.sig = "SIGSEGV"
    /\ result.code = "ok"
    /\ pipe # <<>>

\* C15: the child maps nothing and runs nothing of the block before the
\* parent has seen its initial stop and resumed it.  While the parent is in
\* its first waitpid or about to resume, the child is before raise(SIGSTOP),
\* or stopped by that SIGSTOP with the first mapping step still ahead of it
\* (or was killed there); and the parent is about to resume only when its
\* first waitpid has returned a stopped status.
C15_NothingBeforeResume ==
    /\ pc \in {"wait1", "cont"} =>
           /\ child.pc \in {"traceme", "map_blocks"}
           /\ child.pc = "map_blocks" =>
                  (child.state = "stopped" /\ child.sig = "SIGSTOP")
           /\ pipe = <<>>
    /\ pc = "cont" =>
           /\ wstatus.waited
           /\ wstatus.stopped
           /\ child.state = "stopped"

\* C15 witness: the first waitpid has returned the initial stop and the
\* parent is about to call ptrace(PTRACE_CONT).
C15_Witness ==
    /\ pc = "cont"
    /\ wstatus.sig = "SIGSTOP"
    /\ child.pc = "map_blocks"
    /\ child.addrs.accessed_blocks # <<>>

\* C16: the parent is in ReadAll only when the child is dead and reaped
\* (and the stop was classified as ok), and a trial comes back with the
\* error of the classification only when the child is dead and reaped.
C16_ReadAfterReap ==
    /\ pc = "read" => (child.state = "reaped" /\ result.code = "ok")
    /\ (pc = "ret" /\ wstatus.waited /\ result.code # "ok") =>
           child.state = "reaped"

\* C16 witness: a trial has come back with the error of the classification
\* of a stop (the child was stopped, then killed and reaped).
C16_Witness ==
    /\ pc = "ret"
    /\ wstatus.stopped
    /\ result.code = "internal"
    /\ status = result
    /\ child.state = "reaped"

\* C17: a child that fails before the jump into the block (a discovered block
\* cannot be mapped or lands elsewhere, the trampoline cannot be mapped) has
\* attempted to write a frame with the non-ok status before it aborts: when
\* it has stopped in abort(), the last frame on the pipe is a non-ok one, or
\* the write of that frame was attempted and failed.  (A failed write of the
\* ok frame, then = "run", is not one of these failures.)
C17_ChildFailureWritesFrame ==
    (child.state = "stopped" /\ child.pc = "aborted" /\ child.then # "run") =>
        \/ (pipe # <<>> /\ pipe[Len(pipe)].status_code # "ok")
        \/ (child.then = "abort" /\ child.errno = "EIO")

\* C20: one trial cannot deadlock.  The child puts at most one frame on the
\* pipe and so never waits in write() for the parent to read (the parent
\* reads only when the child is dead); and the parent, once the child has
\* stopped or terminated, returns: it is never in ReadAll's inner loop at
\* end of file with a code in errno that makes the loop go round again.
C20_NoDeadlock ==
    /\ Len(pipe) <= 1
    /\ ~(child.state = "running" /\ child.pc = "write" /\ pipe # <<>>)
    /\ ~(pc = "read" /\ pipe = <<>> /\ IsRetryable(errno))

\* C18: WriteAll fails or puts the bytes of the frame on the pipe, each once
\* and in order, whatever errno held at entry and however the calls fall
\* out: the do-while repeats a call only when that call failed with a
\* retryable code; a call that wrote bytes moves current_offset on by that
\* many; what is on the pipe is at every moment a prefix of the frame; and
\* a return of ok comes with the whole frame on the pipe and fd closed.
C18_WriteAllExact ==
    [][/\ (io.pc = "test" /\ io'.pc = "write"
              /\ io'.current_offset = io.current_offset) =>
              (io.bytes < 0 /\ IsRetryable(io.errno))
       /\ (io.pc = "test" /\ io.bytes > 0) =>
              io'.current_offset = io.current_offset + io.bytes
       /\ io'.data = SubSeq(Frame, 1, Len(io'.data))
       /\ (io'.pc = "done" /\ io'.ret.code = "ok") =>
              (io'.data = Frame /\ ~io'.fd_open)]_vars

\* C19: ReadAll returns the frame only when all its bytes were delivered,
\* whatever errno held at entry: a call that delivered bytes moves
\* current_offset on by that many, so the next call lands behind them; a
\* call that returned 0 (end of file) ends ReadAll with an internal error,
\* without another round of the loop; and a return of ok comes with the
\* whole frame in the buffer.
C19_ReadAllComplete ==
    [][/\ (io.pc = "test" /\ io.bytes > 0) =>
              io'.current_offset = io.current_offset + io.bytes
       /\ (io.pc = "test" /\ io.bytes = 0) =>
              (io'.pc = "done" /\ io'.ret.code = "internal")
       /\ (io'.pc = "done" /\ io'.ret.code = "ok") =>
              (io'.buffer = Frame /\ io'.current_offset = FrameBytes
                  /\ ~io'.fd_open)]_vars

\* C21: any aligned 8-byte read of a freshly filled block yields the bytes
\* 08 00 00 00 08 00 00 00, the little-endian value 0x0000000800000008, and
\* that value is an address inside the range [base, base + length) that the
\* child gave to munmap before it mapped the block.
C21_FillValueInUnmappedRange ==
    fill.pc = "read" =>
        /\ fill.chunk = <<8, 0, 0, 0, 8, 0, 0, 0>>
        /\ Limbs(fill.chunk) = <<8, 0, 8, 0>>
        /\ InRange(Limbs(fill.chunk), fill.unmapped.base, fill.unmapped.length)

\* C21 witness: the last aligned 8-byte chunk of the filled block was read.
C21_Witness ==
    /\ fill.pc = "read"
    /\ fill.offset = accessed_addrs.block_size - WordBytes
    /\ fill.i = accessed_addrs.block_size
====
